---------------------------- MODULE Spec2Model ----------------------------
(***************************************************************************)
(* A model of prompt_builder.py: the dotted-path lookup, the include_if    *)
(* evaluator, the {{var}} / {{{literal}}} macro engine, the nested         *)
(* renderer, Section.render and the PromptBuilder operations.              *)
(*                                                                         *)
(* Text is a sequence of one-character strings.  Python values (payloads,  *)
(* contexts, include_if expectations) are records with the fields          *)
(*   t     "none" | "bool" | "str" | "list" | "tuple" | "map"              *)
(*   s     the characters of a str                                         *)
(*   b     the truth value of a bool                                       *)
(*   keys  the keys of a map, in insertion order                           *)
(*   items the elements of a list/tuple, or the values of a map            *)
(***************************************************************************)
EXTENDS Integers, Sequences, FiniteSets, TLC

(***************************************************************************)
(* Python values                                                           *)
(***************************************************************************)
VNone == [t |-> "none", s |-> <<>>, b |-> FALSE, keys |-> <<>>, items |-> <<>>]

VStr(chars) == [t |-> "str", s |-> chars, b |-> FALSE, keys |-> <<>>, items |-> <<>>]

VBool(x) == [t |-> "bool", s |-> <<>>, b |-> x, keys |-> <<>>, items |-> <<>>]

VList(xs) == [t |-> "list", s |-> <<>>, b |-> FALSE, keys |-> <<>>, items |-> xs]

VTuple(xs) == [t |-> "tuple", s |-> <<>>, b |-> FALSE, keys |-> <<>>, items |-> xs]

VMap(ks, vs) == [t |-> "map", s |-> <<>>, b |-> FALSE, keys |-> ks, items |-> vs]

Range(f) == {f[i] : i \in DOMAIN f}

\* isinstance(x, Mapping) and key in x
HasKey(x, key) == x.t = "map" /\ \E i \in DOMAIN x.keys : x.keys[i] = key

\* x[key]
GetKey(x, key) == x.items[CHOOSE i \in DOMAIN x.keys : x.keys[i] = key]

\* bool(x)
Truthy(x) ==
    CASE x.t = "none" -> FALSE
      [] x.t = "bool" -> x.b
      [] x.t = "str" -> x.s # <<>>
      [] OTHER -> x.items # <<>>

(***************************************************************************)
(* Text helpers: str.strip / lstrip / rstrip, slicing, search, join        *)
(***************************************************************************)
WS == {" ", "\n"}

RECURSIVE LStrip(_)
LStrip(s) == IF s # <<>> /\ Head(s) \in WS THEN LStrip(Tail(s)) ELSE s

RECURSIVE RStrip(_)
RStrip(s) ==
    IF s # <<>> /\ s[Len(s)] \in WS THEN RStrip(SubSeq(s, 1, Len(s) - 1)) ELSE s

Strip(s) == RStrip(LStrip(s))

\* s[:n] for n >= 0
Prefix(s, n) == SubSeq(s, 1, IF n < Len(s) THEN n ELSE Len(s))

\* s[i-1:] with i counted from 1
From(s, i) == SubSeq(s, i, Len(s))

\* pat occurs in s at position i (from 1)
At(s, pat, i) ==
    /\ i >= 1
    /\ i + Len(pat) - 1 <= Len(s)
    /\ \A j \in 1..Len(pat) : s[i + j - 1] = pat[j]

\* the first position >= i where pat occurs in s, 0 when there is none
Find(s, pat, i) ==
    IF \E p \in i..Len(s) : At(s, pat, p)
    THEN CHOOSE p \in i..Len(s) : At(s, pat, p) /\ \A q \in i..(p - 1) : ~At(s, pat, q)
    ELSE 0

Contains(s, pat) == Find(s, pat, 1) # 0

RECURSIVE Join(_, _)
Join(sep, parts) ==
    IF parts = <<>> THEN <<>>
    ELSE IF Len(parts) = 1 THEN parts[1]
    ELSE parts[1] \o sep \o Join(sep, Tail(parts))

RECURSIVE Repeat(_, _)
Repeat(s, n) == IF n <= 0 THEN <<>> ELSE s \o Repeat(s, n - 1)

DigitChars == <<"0", "1", "2", "3", "4", "5", "6", "7", "8", "9">>

\* str(n) for a natural number n
RECURSIVE IntStr(_)
IntStr(n) == IF n < 10 THEN <<DigitChars[n + 1]>> ELSE IntStr(n \div 10) \o <<DigitChars[(n % 10) + 1]>>

IsDigit(c) == \E i \in DOMAIN DigitChars : DigitChars[i] = c

DigitVal(c) == (CHOOSE i \in DOMAIN DigitChars : DigitChars[i] = c) - 1

\* int(s) for a non-empty string of digits
RECURSIVE StrInt(_)
StrInt(s) ==
    IF Len(s) = 1 THEN DigitVal(s[1])
    ELSE 10 * StrInt(SubSeq(s, 1, Len(s) - 1)) + DigitVal(s[Len(s)])

\* path.split('.')
RECURSIVE SplitDot(_)
SplitDot(s) ==
    LET p == Find(s, <<".">>, 1)
    IN IF p = 0 THEN <<s>> ELSE <<SubSeq(s, 1, p - 1)>> \o SplitDot(From(s, p + 1))

\* repr(s) of a str without quote characters, and str(x)
PyReprStr(s) == <<"'">> \o s \o <<"'">>

RECURSIVE PyRepr(_)
PyRepr(x) ==
    CASE x.t = "none" -> <<"N", "o", "n", "e">>
      [] x.t = "bool" -> IF x.b THEN <<"T", "r", "u", "e">> ELSE <<"F", "a", "l", "s", "e">>
      [] x.t = "str" -> PyReprStr(x.s)
      [] x.t = "list" ->
            <<"[">> \o Join(<<",", " ">>, [i \in DOMAIN x.items |-> PyRepr(x.items[i])]) \o <<"]">>
      [] x.t = "tuple" ->
            <<"(">> \o Join(<<",", " ">>, [i \in DOMAIN x.items |-> PyRepr(x.items[i])])
                \o (IF Len(x.items) = 1 THEN <<",">> ELSE <<>>) \o <<")">>
      [] OTHER ->
            <<"{">> \o Join(<<",", " ">>, [i \in DOMAIN x.items |->
                        PyReprStr(x.keys[i]) \o <<":", " ">> \o PyRepr(x.items[i])]) \o <<"}">>

PyStr(x) == IF x.t = "str" THEN x.s ELSE PyRepr(x)

(***************************************************************************)
(* _lookup and _conditions_match                                           *)
(***************************************************************************)
RECURSIVE WalkPath(_, _)
WalkPath(parts, cur) ==
    IF parts = <<>> THEN cur
    ELSE IF HasKey(cur, Head(parts)) THEN WalkPath(Tail(parts), GetKey(cur, Head(parts)))
    ELSE VNone

_lookup(path, data) == WalkPath(SplitDot(path), data)

\* one (key, expected) pair of the loop over conds.items()
ConditionHolds(key, expected, context) ==
    LET actual == _lookup(key, context)
    IN CASE expected.t \in {"list", "tuple"} -> \E i \in DOMAIN expected.items : expected.items[i] = actual
         [] expected.t = "bool" /\ expected.b -> Truthy(actual)
         [] expected.t = "bool" /\ ~expected.b -> ~Truthy(actual)
         [] OTHER -> actual = expected

\* _conditions_match without the test for an absent context
_conditions_match_no_context_test(conds, context) ==
    IF ~Truthy(conds) THEN TRUE
    ELSE \A i \in DOMAIN conds.keys : ConditionHolds(conds.keys[i], conds.items[i], context)

\* conds is None or a map; context is None or a map
_conditions_match(conds, context) ==
    IF ~Truthy(conds) THEN TRUE
    ELSE IF context.t = "none" THEN FALSE
    ELSE \A i \in DOMAIN conds.keys : ConditionHolds(conds.keys[i], conds.items[i], context)

(***************************************************************************)
(* _apply_macros: the three regular expressions and the three passes       *)
(***************************************************************************)
\* U+E000, the private-use character of the placeholder tokens
SENTINEL == "U+E000"

IndexError == <<"IndexError">>

\* f"{len(protected)-1}"
Placeholder(idx) == <<SENTINEL>> \o IntStr(idx) \o <<SENTINEL>>

\* _TRIPLE.sub(protect_store, text): each leftmost {{{ ... }}} (shortest inner
\* text, newlines included) becomes a placeholder; n spans are stored already
RECURSIVE _TRIPLE_sub(_, _)
_TRIPLE_sub(text, n) ==
    LET p == Find(text, <<"{", "{", "{">>, 1)
        q == IF p = 0 THEN 0 ELSE Find(text, <<"}", "}", "}">>, p + 3)
    IN IF q = 0 THEN [text |-> text, protected |-> <<>>]
       ELSE LET rest == _TRIPLE_sub(From(text, q + 3), n + 1)
            IN [text |-> SubSeq(text, 1, p - 1) \o Placeholder(n) \o rest.text,
                protected |-> <<SubSeq(text, p + 3, q - 1)>> \o rest.protected]

IsBrace(c) == c \in {"{", "}"}

\* the position of the first brace of text at or after i, Len(text)+1 when none
FirstBrace(text, i) ==
    IF \E r \in i..Len(text) : IsBrace(text[r])
    THEN CHOOSE r \in i..Len(text) : IsBrace(text[r]) /\ \A k \in i..(r - 1) : ~IsBrace(text[k])
    ELSE Len(text) + 1

\* _DOUBLE matches at p: "{{", one or more non-brace characters, "}}"
DoubleAt(text, p) ==
    /\ At(text, <<"{", "{">>, p)
    /\ FirstBrace(text, p + 2) > p + 2
    /\ At(text, <<"}", "}">>, FirstBrace(text, p + 2))

\* repl(m): the string form of the value at the trimmed key, or the match itself
repl(text, p, context) ==
    LET r == FirstBrace(text, p + 2)
        key == Strip(SubSeq(text, p + 2, r - 1))
        val == _lookup(key, context)
    IN IF val.t # "none" THEN PyStr(val) ELSE SubSeq(text, p, r + 1)

\* _DOUBLE.sub(repl, text)
RECURSIVE _DOUBLE_sub(_, _)
_DOUBLE_sub(text, context) ==
    IF \E p \in 1..Len(text) : DoubleAt(text, p)
    THEN LET p == CHOOSE p \in 1..Len(text) :
                     DoubleAt(text, p) /\ \A q \in 1..(p - 1) : ~DoubleAt(text, q)
             r == FirstBrace(text, p + 2)
         IN SubSeq(text, 1, p - 1) \o repl(text, p, context)
                \o _DOUBLE_sub(From(text, r + 2), context)
    ELSE text

\* the end of the run of digits that starts at i (i - 1 when text[i] is no digit)
DigitsEnd(text, i) ==
    IF \E e \in i..Len(text) : ~IsDigit(text[e])
    THEN (CHOOSE e \in i..Len(text) : ~IsDigit(text[e]) /\ \A k \in i..(e - 1) : IsDigit(text[k])) - 1
    ELSE Len(text)

\* _PROT matches at p: the sentinel, one or more digits, the sentinel
ProtAt(text, p) ==
    /\ p <= Len(text) /\ text[p] = SENTINEL
    /\ DigitsEnd(text, p + 1) >= p + 1
    /\ DigitsEnd(text, p + 1) + 1 <= Len(text)
    /\ text[DigitsEnd(text, p + 1) + 1] = SENTINEL

\* _PROT.sub(unprotect, text); protected[idx] raises IndexError out of range
RECURSIVE _PROT_sub(_, _)
_PROT_sub(text, protected) ==
    IF \E p \in 1..Len(text) : ProtAt(text, p)
    THEN LET p == CHOOSE p \in 1..Len(text) :
                     ProtAt(text, p) /\ \A q \in 1..(p - 1) : ~ProtAt(text, q)
             e == DigitsEnd(text, p + 1)
             idx == StrInt(SubSeq(text, p + 1, e))
             rest == _PROT_sub(From(text, e + 2), protected)
         IN IF idx >= Len(protected) \/ rest = IndexError THEN IndexError
            ELSE SubSeq(text, 1, p - 1) \o protected[idx + 1] \o rest
    ELSE text

\* _apply_macros with the interpolation pass run before the protection pass
_apply_macros_interpolate_first(text, context) ==
    IF text = <<>> THEN text
    ELSE LET t0 == _DOUBLE_sub(text, context)
             t1 == _TRIPLE_sub(t0, 0)
         IN _PROT_sub(t1.text, t1.protected)

_apply_macros(text, context) ==
    IF text = <<>> THEN text
    ELSE LET t1 == _TRIPLE_sub(text, 0)
             t2 == _DOUBLE_sub(t1.text, context)
         IN _PROT_sub(t2, t1.protected)

(***************************************************************************)
(* The nested renderer.  A line is the text f"{indent}{bullet}...".        *)
(***************************************************************************)
_is_nested_structure(x) == x.t \in {"map", "list", "tuple"}

_bullet_label(idx, ordered) == IF ordered THEN IntStr(idx) \o <<".">> ELSE <<"-">>

\* "  " * level
Indent(level) == Repeat(<<" ", " ">>, level)

RECURSIVE _render_nested(_, _, _)
RECURSIVE _render_mapping_at_level(_, _, _)
RECURSIVE _render_sequence_at_level(_, _, _)
RECURSIVE MappingEntries(_, _, _, _)
RECURSIVE SequenceItems(_, _, _, _)

\* a key with its value under the bullet of slot idx: the body of the mapping
\* loop, and case 1 of the sequence loop
LabeledNode(k, v, idx, level, ordered) ==
    LET head == Indent(level) \o _bullet_label(idx, ordered) \o <<" ">> \o Strip(k)
    IN IF _is_nested_structure(v) THEN <<head>> \o _render_nested(v, level + 1, ordered)
       ELSE IF v.t = "none" THEN <<head>>
       ELSE <<head \o <<":", " ">> \o Strip(PyStr(v))>>

\* the loop of _render_mapping_at_level from entry idx on
MappingEntries(d, idx, level, ordered) ==
    IF idx > Len(d.keys) THEN <<>>
    ELSE LabeledNode(d.keys[idx], d.items[idx], idx, level, ordered)
            \o MappingEntries(d, idx + 1, level, ordered)

_render_mapping_at_level(d, level, ordered) == MappingEntries(d, 1, level, ordered)

\* case 2 of the sequence loop: ["Label", children]
PairStyle(item, idx, level, ordered) ==
    LET label == Strip(item.items[1].s)
        children == IF Len(item.items) > 1 THEN item.items[2] ELSE VNone
        head == Indent(level) \o _bullet_label(idx, ordered) \o <<" ">> \o label
    IN IF _is_nested_structure(children)
       THEN <<head>> \o _render_nested(children, level + 1, ordered)
       ELSE IF children.t # "none"
       THEN <<head, Indent(level + 1) \o _bullet_label(1, ordered) \o <<" ">> \o Strip(PyStr(children))>>
       ELSE <<head>>

\* one element of the sequence, in slot idx: the five cases in the code's order
SequenceItem(item, idx, level, ordered) ==
    LET bare == Indent(level) \o _bullet_label(idx, ordered)
    IN IF item.t = "map" /\ Len(item.keys) = 1
       THEN LabeledNode(item.keys[1], item.items[1], idx, level, ordered)
       ELSE IF item.t \in {"list", "tuple"} /\ item.items # <<>> /\ item.items[1].t = "str"
       THEN PairStyle(item, idx, level, ordered)
       ELSE IF item.t = "map"
       THEN <<bare>> \o _render_mapping_at_level(item, level + 1, ordered)
       ELSE IF item.t \in {"list", "tuple"}
       THEN <<bare>> \o _render_sequence_at_level(item, level + 1, ordered)
       ELSE IF Strip(PyStr(item)) # <<>>
       THEN <<bare \o <<" ">> \o Strip(PyStr(item))>>
       ELSE <<>>

\* the loop of _render_sequence_at_level from element idx on
SequenceItems(seq, idx, level, ordered) ==
    IF idx > Len(seq.items) THEN <<>>
    ELSE SequenceItem(seq.items[idx], idx, level, ordered)
            \o SequenceItems(seq, idx + 1, level, ordered)

_render_sequence_at_level(seq, level, ordered) == SequenceItems(seq, 1, level, ordered)

_render_nested(value, level, ordered) ==
    IF value.t = "str"
    THEN <<Indent(level) \o _bullet_label(1, ordered) \o <<" ">> \o Strip(value.s)>>
    ELSE IF value.t = "map" THEN _render_mapping_at_level(value, level, ordered)
    ELSE IF value.t \in {"list", "tuple"} THEN _render_sequence_at_level(value, level, ordered)
    ELSE <<Indent(level) \o _bullet_label(1, ordered) \o <<" ">> \o Strip(PyStr(value))>>

\* re.sub(r"\n{3,}", "\n\n", s)
RECURSIVE CollapseNewlines(_)
CollapseNewlines(s) ==
    IF s = <<>> THEN s
    ELSE IF At(s, <<"\n", "\n", "\n">>, 1)
    THEN LET rest == CollapseNewlines(Tail(s))
         IN IF At(rest, <<"\n", "\n">>, 1) THEN rest ELSE <<"\n">> \o rest
    ELSE <<Head(s)>> \o CollapseNewlines(Tail(s))

_coerce_to_str(value, ordered) ==
    IF value.t = "str" THEN CollapseNewlines(Strip(value.s))
    ELSE IF _is_nested_structure(value) THEN Join(<<"\n">>, _render_nested(value, 0, ordered))
    ELSE Strip(PyStr(value))

(***************************************************************************)
(* Section.  An Optional field is <<>> for None and <<x>> for the value x. *)
(***************************************************************************)
None == <<>>

Some(x) == <<x>>

\* U+2026, the ellipsis character
ELLIPSIS == "U+2026"

Section(name, content, max_chars, title, include_if, header_size) ==
    [name |-> name, content |-> content, max_chars |-> max_chars, title |-> title,
     include_if |-> include_if, header_size |-> header_size]

\* s[:n], n of either sign
Slice(s, n) == IF n >= 0 THEN Prefix(s, n) ELSE Prefix(s, IF Len(s) + n > 0 THEN Len(s) + n ELSE 0)

Min(a, b) == IF a < b THEN a ELSE b

Max(a, b) == IF a > b THEN a ELSE b

\* Section._header: None, or the header line
Section_header(self, context) ==
    IF self.title = None \/ self.title = Some(<<>>) THEN None
    ELSE LET header_text == IF context.t # "none" THEN _apply_macros(self.title[1], context)
                            ELSE self.title[1]
             stripped == LStrip(header_text)
             lvl == Max(1, Min(6, IF self.header_size = 0 THEN 1 ELSE self.header_size))
         IN IF At(stripped, <<"#">>, 1) THEN Some(header_text)
            ELSE Some(Strip(Repeat(<<"#">>, lvl) \o <<" ">> \o header_text))

\* the first two statements of Section.render: trim, then truncate
Truncated(self) ==
    LET s == Strip(self.content)
    IN IF self.max_chars # None /\ self.max_chars[1] # 0 /\ Len(s) > self.max_chars[1]
       THEN RStrip(Slice(s, self.max_chars[1])) \o <<ELLIPSIS>>
       ELSE s

Section_render(self, context) ==
    LET t == Truncated(self)
        s == IF context.t # "none" /\ (Contains(t, <<"{", "{">>) \/ Contains(t, <<"{", "{", "{">>))
             THEN _apply_macros(t, context) ELSE t
        header == Section_header(self, context)
    IN IF header # None /\ header[1] # <<>>
       THEN (IF s # <<>> THEN header[1] \o <<"\n">> \o s ELSE <<>>)
       ELSE s

(***************************************************************************)
(* PromptBuilder.  sections is the OrderedDict as the sequence of its      *)
(* entries in insertion order; an entry carries the key, the Section and   *)
(* alias, the caller's object the stored Section is (NoObj for an object   *)
(* only the builder holds).  from_obj and copied record the caller's       *)
(* object an add_section call passed and its copy argument.                *)
(***************************************************************************)
NoObj == "NoObj"

Entry(key, sec, alias, from_obj, copied) ==
    [key |-> key, sec |-> sec, alias |-> alias, from_obj |-> from_obj, copied |-> copied]

Own(key, sec) == Entry(key, sec, NoObj, NoObj, FALSE)

Keys(sections) == {sections[i].key : i \in DOMAIN sections}

KeyList(sections) == [i \in DOMAIN sections |-> sections[i].key]

\* self.sections[key]
Lookup(sections, key) == sections[CHOOSE i \in DOMAIN sections : sections[i].key = key]

\* self.sections[key] = ...: in place for a key present, appended for a new one
Assign(sections, e) ==
    IF e.key \in Keys(sections)
    THEN [i \in DOMAIN sections |-> IF sections[i].key = e.key THEN e ELSE sections[i]]
    ELSE Append(sections, e)

\* [x for x in seq if keep(x)]
RECURSIVE FilterIn(_, _)
FilterIn(seq, keep) ==
    IF seq = <<>> THEN <<>>
    ELSE (IF Head(seq) \in keep THEN <<Head(seq)>> ELSE <<>>) \o FilterIn(Tail(seq), keep)

\* self.sections.pop(key, None)
Pop(sections, key) ==
    LET idx == FilterIn([i \in DOMAIN sections |-> i], {i \in DOMAIN sections : sections[i].key # key})
    IN [j \in DOMAIN idx |-> sections[idx[j]]]

InSeq(x, seq) == \E i \in DOMAIN seq : seq[i] = x

Builder(sections, order) == [sections |-> sections, order |-> order]

\* add_section that stores the caller's object whatever copy says
StoredObject_shared(obj, copy) == obj

\* the object add_section stores: deepcopy(section) if copy else section
StoredObject(obj, copy) == IF copy THEN NoObj ELSE obj

\* PromptBuilder.set
set(pb, name, value, title, max_chars, ordered, include_if, header_size) ==
    LET rendered == _coerce_to_str(value, ordered)
        section == Section(name, rendered, max_chars, title, include_if, header_size)
    IN Builder(Assign(pb.sections, Own(name, section)),
               IF ~InSeq(name, pb.order) THEN Append(pb.order, name) ELSE pb.order)

\* append that builds the new Section from the payload alone, as set does
append_as_set(pb, name, more, ordered) == set(pb, name, more, None, None, ordered, VNone, 1)

\* PromptBuilder.append
append(pb, name, more, ordered) ==
    IF name \notin Keys(pb.sections)
    THEN set(pb, name, more, None, None, ordered, VNone, 1)
    ELSE LET existing == Lookup(pb.sections, name).sec
             added == _coerce_to_str(more, ordered)
             new_content == Strip(existing.content \o <<"\n">> \o added)
         IN Builder(Assign(pb.sections,
                           Own(name, Section(name, new_content, existing.max_chars, existing.title,
                                             existing.include_if, existing.header_size))),
                    pb.order)

\* add_section that overwrites an existing section whatever replace says
add_section_always_replaces(pb, obj, section, replace, copy) ==
    [pb |-> Builder(Assign(pb.sections,
                           Entry(section.name, section, StoredObject(obj, copy), obj, copy)),
                    IF section.name \notin Keys(pb.sections)
                    THEN Append(pb.order, section.name) ELSE pb.order),
     raised |-> "no"]

\* PromptBuilder.add_section; obj is the caller's object, section its value
add_section(pb, obj, section, replace, copy) ==
    LET exists == section.name \in Keys(pb.sections)
    IN IF exists /\ ~replace THEN [pb |-> pb, raised |-> "ValueError"]
       ELSE [pb |-> Builder(Assign(pb.sections,
                                   Entry(section.name, section, StoredObject(obj, copy), obj, copy)),
                            IF ~exists THEN Append(pb.order, section.name) ELSE pb.order),
             raised |-> "no"]

\* set_order without the loop that appends the sections not mentioned
set_order_listed_only(pb, names) == Builder(pb.sections, FilterIn(names, Keys(pb.sections)))

\* PromptBuilder.set_order
set_order(pb, names) ==
    LET given == FilterIn(names, Keys(pb.sections))
        rest == FilterIn(KeyList(pb.sections), Keys(pb.sections) \ Range(given))
    IN Builder(pb.sections, given \o rest)

\* PromptBuilder.remove
remove(pb, name) ==
    Builder(Pop(pb.sections, name), FilterIn(pb.order, Range(pb.order) \ {name}))

\* the loop of compile from position i of the order list on: the kept parts,
\* each with the name of its section
RECURSIVE CompileParts(_, _, _, _)
CompileParts(pb, context, include_empty, i) ==
    IF i > Len(pb.order) THEN <<>>
    ELSE LET name == pb.order[i]
             sec == Lookup(pb.sections, name).sec
             rendered == Section_render(sec, context)
             header == Section_header(sec, context)
             rest == CompileParts(pb, context, include_empty, i + 1)
         IN IF Truthy(sec.include_if) /\ ~_conditions_match(sec.include_if, context) THEN rest
            ELSE IF rendered # <<>> THEN <<[name |-> name, text |-> rendered]>> \o rest
            ELSE IF include_empty
            THEN <<[name |-> name, text |-> IF header # None THEN header[1] ELSE <<>>]>> \o rest
            ELSE rest

\* PromptBuilder.compile
compile(pb, context, joiner, include_empty) ==
    LET parts == CompileParts(pb, context, include_empty, 1)
    IN Join(joiner, [i \in DOMAIN parts |-> parts[i].text])

\* the default joiner
JOINER == <<"\n", "\n">>

(***************************************************************************)
(* Serialization.  A dict of to_dict is a record; a JSON document is the   *)
(* dict in JSON's data model, where a tuple is written as an array.        *)
(***************************************************************************)
to_dict(pb) ==
    [meta |-> VMap(<<>>, <<>>),
     order |-> pb.order,
     sections |-> [i \in DOMAIN pb.sections |->
                      [k |-> pb.sections[i].key,
                       name |-> pb.sections[i].sec.name,
                       content |-> pb.sections[i].sec.content,
                       max_chars |-> pb.sections[i].sec.max_chars,
                       title |-> pb.sections[i].sec.title,
                       include_if |-> pb.sections[i].sec.include_if,
                       header_size |-> pb.sections[i].sec.header_size]]]

\* pb.sections[name] = Section(...) for each entry, in the dict's order
RECURSIVE FromDictSections(_, _)
FromDictSections(sds, acc) ==
    IF sds = <<>> THEN acc
    ELSE LET sd == Head(sds)
         IN FromDictSections(Tail(sds),
                Assign(acc, Own(sd.k, Section(sd.name, sd.content, sd.max_chars, sd.title,
                                              sd.include_if, sd.header_size))))

\* from_dict that takes the order from the sections' keys, not from "order"
from_dict_key_order(data) ==
    Builder(FromDictSections(data.sections, <<>>), KeyList(FromDictSections(data.sections, <<>>)))

\* a call that ended in an exception
Raised(e) == [raised |-> e]

IsRaised(x) == "raised" \in DOMAIN x

\* the document is a parsed value (None, bool, str, list, map), not a dict
\* of to_dict
IsPyValue(data) == "t" \in DOMAIN data

\* a mapping given as a value, read with data.get: no "sections" entries,
\* "order" a list of one-character names
DocOf(data) ==
    [meta |-> IF HasKey(data, <<"m", "e", "t", "a">>) THEN GetKey(data, <<"m", "e", "t", "a">>)
              ELSE VMap(<<>>, <<>>),
     order |-> IF HasKey(data, <<"o", "r", "d", "e", "r">>)
               THEN LET names == GetKey(data, <<"o", "r", "d", "e", "r">>).items
                    IN [i \in DOMAIN names |-> names[i].s[1]]
               ELSE <<>>,
     sections |-> <<>>]

\* data.get raises AttributeError on a value that is not a mapping
from_dict(data) ==
    IF IsPyValue(data) /\ data.t # "map" THEN Raised("AttributeError")
    ELSE LET d == IF IsPyValue(data) THEN DocOf(data) ELSE data
         IN Builder(FromDictSections(d.sections, <<>>), d.order)

\* json.loads(json.dumps(x)) of a value
RECURSIVE JsonValue(_)
JsonValue(x) ==
    IF x.t \in {"list", "tuple"} THEN VList([i \in DOMAIN x.items |-> JsonValue(x.items[i])])
    ELSE IF x.t = "map" THEN VMap(x.keys, [i \in DOMAIN x.items |-> JsonValue(x.items[i])])
    ELSE x

\* json.dumps(self.to_dict()), as the document json.loads reads back
to_json(pb) ==
    LET d == to_dict(pb)
    IN [meta |-> JsonValue(d.meta),
        order |-> d.order,
        sections |-> [i \in DOMAIN d.sections |->
                         [d.sections[i] EXCEPT !.include_if = JsonValue(@)]]]

from_json(source) == from_dict(source)

\* source is the value yaml.safe_load reads; yaml is None when PyYAML is
\* not installed
from_yaml(yaml_installed, source) ==
    IF ~yaml_installed THEN Raised("ImportError")
    ELSE LET data == IF Truthy(source) THEN source ELSE VMap(<<>>, <<>>)
         IN IF data.t # "map" THEN Raised("ValueError")
            ELSE from_dict(data)

(***************************************************************************)
(* The state machine of a PromptBuilder and its caller                     *)
(***************************************************************************)
VARIABLES
    sections,   \* PromptBuilder.sections
    order,      \* PromptBuilder.order
    callerObj,  \* the Section objects the caller holds, by object
    last,       \* the last call: its name, arguments and outcome
    args,       \* the arguments of a call of one of the module's functions
    result      \* its return value, Pending before the call

vars == <<sections, order, callerObj, last, args, result>>

builder == Builder(sections, order)

Pending == [done |-> FALSE, value |-> <<>>]

\* the value a call of a pure function returned
Returned(v) == [done |-> TRUE, value |-> v]

NoArgs == "none"

Call(op, name, names, value, ordered, obj, replace, copy, raised) ==
    [op |-> op, name |-> name, names |-> names, value |-> value, ordered |-> ordered,
     obj |-> obj, replace |-> replace, copy |-> copy, raised |-> raised]

NoCall == Call("init", "", <<>>, VNone, FALSE, NoObj, FALSE, FALSE, "no")

\* the longest content set/append may store in a run
MaxContentLen == 7

\* the longest sequence of names handed to set_order
MaxOrderArgs == 2

\* the sequences over S of length at most n
RECURSIVE SeqsUpTo(_, _)
SeqsUpTo(S, n) ==
    IF n = 0 THEN {<<>>}
    ELSE LET shorter == SeqsUpTo(S, n - 1)
         IN shorter \cup {Append(q, x) : q \in {r \in shorter : Len(r) = n - 1}, x \in S}

\* D: the arguments the caller draws from
\*   names, payloads, options (title, max_chars, include_if, header_size, ordered),
\*   more (append's payloads), orderLen, fields (field |-> values the caller assigns)
DoSet(D) ==
    \E name \in D.names, value \in D.payloads, o \in D.options :
        LET new == set(builder, name, value, o.title, o.max_chars, o.ordered, o.include_if, o.header_size)
        IN /\ Len(Lookup(new.sections, name).sec.content) <= MaxContentLen
           /\ sections' = new.sections
           /\ order' = new.order
           /\ last' = Call("set", name, <<>>, VNone, FALSE, NoObj, FALSE, FALSE, "no")
           /\ UNCHANGED <<callerObj, args, result>>

DoAppend(D) ==
    \E name \in D.names, more \in D.more, ordered \in BOOLEAN :
        LET new == append(builder, name, more, ordered)
        IN /\ Len(Lookup(new.sections, name).sec.content) <= MaxContentLen
           /\ sections' = new.sections
           /\ order' = new.order
           /\ last' = Call("append", name, <<>>, more, ordered, NoObj, FALSE, FALSE, "no")
           /\ UNCHANGED <<callerObj, args, result>>

DoAddSection(D) ==
    \E obj \in DOMAIN callerObj, replace \in BOOLEAN, copy \in BOOLEAN :
        LET r == add_section(builder, obj, callerObj[obj], replace, copy)
        IN /\ sections' = r.pb.sections
           /\ order' = r.pb.order
           /\ last' = Call("add_section", callerObj[obj].name, <<>>, VNone, FALSE, obj, replace, copy, r.raised)
           /\ UNCHANGED <<callerObj, args, result>>

DoSetOrder(D) ==
    \E names \in SeqsUpTo(D.names, D.orderLen) :
        LET new == set_order(builder, names)
        IN /\ sections' = new.sections
           /\ order' = new.order
           /\ last' = Call("set_order", "", names, VNone, FALSE, NoObj, FALSE, FALSE, "no")
           /\ UNCHANGED <<callerObj, args, result>>

DoRemove(D) ==
    \E name \in D.names :
        LET new == remove(builder, name)
        IN /\ sections' = new.sections
           /\ order' = new.order
           /\ last' = Call("remove", name, <<>>, VNone, FALSE, NoObj, FALSE, FALSE, "no")
           /\ UNCHANGED <<callerObj, args, result>>

\* the caller assigns a field of one of its own Section objects; every entry
\* of the builder that is this object sees the assignment
Mutate(D) ==
    \E obj \in DOMAIN callerObj, f \in DOMAIN D.fields :
        \E v \in D.fields[f] :
            /\ callerObj[obj][f] # v
            /\ callerObj' = [callerObj EXCEPT ![obj][f] = v]
            /\ sections' = [i \in DOMAIN sections |->
                               IF sections[i].alias = obj
                               THEN [sections[i] EXCEPT !.sec = callerObj'[obj]]
                               ELSE sections[i]]
            /\ last' = Call("mutate", f, <<>>, VNone, FALSE, obj, FALSE, FALSE, "no")
            /\ UNCHANGED <<order, args, result>>

NextBuilder(D) ==
    \/ DoSet(D)
    \/ DoAppend(D)
    \/ DoAddSection(D)
    \/ DoSetOrder(D)
    \/ DoRemove(D)
    \/ Mutate(D)

(***************************************************************************)
(* The values the caller draws its arguments from                          *)
(***************************************************************************)
CtxEmpty == VMap(<<>>, <<>>)

\* {"k": "v", "u": {"r": "o"}}
CtxOwner ==
    VMap(<< <<"k">>, <<"u">> >>, <<VStr(<<"v">>), VMap(<< <<"r">> >>, <<VStr(<<"o">>)>>)>>)

\* {"u": {"r": "m"}}
CtxMember == VMap(<< <<"u">> >>, <<VMap(<< <<"r">> >>, <<VStr(<<"m">>)>>)>>)

\* a compile call's context: None, {} or a mapping
Contexts == {VNone, CtxEmpty, CtxOwner, CtxMember}

\* {"u.r": ["o", "a"]}
IfRoleList == VMap(<< <<"u", ".", "r">> >>, <<VList(<<VStr(<<"o">>), VStr(<<"a">>)>>)>>)

\* {"u.r": ("o",)}
IfRoleTuple == VMap(<< <<"u", ".", "r">> >>, <<VTuple(<<VStr(<<"o">>)>>)>>)

\* {"k": [None, "w"]}
IfKeyList == VMap(<< <<"k">> >>, <<VList(<<VNone, VStr(<<"w">>)>>)>>)

Options(title, max_chars, include_if, header_size, ordered) ==
    [title |-> title, max_chars |-> max_chars, include_if |-> include_if,
     header_size |-> header_size, ordered |-> ordered]

Plain == Options(None, None, VNone, 1, FALSE)

\* Section(name="a", content="x ", title="P", include_if={"u.r": ("o",)}, header_size=4)
BaseSection == Section("a", <<"x", " ">>, None, Some(<<"P">>), IfRoleTuple, 4)

InitBuilder ==
    /\ sections = <<>>
    /\ order = <<>>
    /\ callerObj = [obj \in {"base"} |-> BaseSection]
    /\ last = NoCall
    /\ args = NoArgs
    /\ result = Pending

\* two names, contents with macros and trailing blanks, conditions, titles
Main ==
    [names |-> {"a", "b"},
     payloads |-> {VStr(<<"{", "{", "k", "}", "}">>), VMap(<< <<"k">> >>, <<VStr(<<>>)>>)},
     options |-> {Plain, Options(Some(<<"T">>), Some(3), IfRoleList, 2, TRUE),
                  Options(None, None, IfKeyList, 1, FALSE)},
     more |-> {VList(<<VStr(<<"y">>)>>)},
     orderLen |-> MaxOrderArgs,
     fields |-> [content |-> {<<"M">>}]]

Spec == InitBuilder /\ [][NextBuilder(Main)]_vars

(***************************************************************************)
(* Properties of the builder under Spec                                    *)
(***************************************************************************)
\* the names of the sections compile(context=...) puts into its output
Emitted(b, context) ==
    LET parts == CompileParts(b, context, FALSE, 1)
    IN {parts[i].name : i \in DOMAIN parts}

ListCondition(sec) ==
    /\ sec.include_if.t = "map"
    /\ Len(sec.include_if.keys) = 1
    /\ sec.include_if.items[1].t = "list"

\* C3: a section with a list-valued include_if (and something to render) is
\* in the output of compile exactly when a context is supplied and the value
\* at the path is an element of the list
IncludeIfMembership ==
    \A i \in DOMAIN sections : \A context \in Contexts :
        LET sec == sections[i].sec
        IN (ListCondition(sec) /\ Section_render(sec, context) # <<>>) =>
              (sections[i].key \in Emitted(builder, context)
                  <=> /\ context.t # "none"
                      /\ \E j \in DOMAIN sec.include_if.items[1].items :
                            sec.include_if.items[1].items[j] = _lookup(sec.include_if.keys[1], context))

\* a section under {"u.r": ["o", "a"]}: in for the owner, out for the member
\* and out without a context
IncludeIfWitness ==
    \E i \in DOMAIN sections :
        /\ sections[i].sec.include_if = IfRoleList
        /\ sections[i].key \in Emitted(builder, CtxOwner)
        /\ sections[i].key \notin Emitted(builder, CtxMember)
        /\ sections[i].key \notin Emitted(builder, VNone)
        /\ Section_render(sections[i].sec, VNone) # <<>>

\* what an append call leaves besides the content: the other fields of the
\* section and the order list
AppendKeeps(old, new) ==
    /\ new.title = old.title /\ new.max_chars = old.max_chars
    /\ new.include_if = old.include_if /\ new.header_size = old.header_size
    /\ order' = order

Ordering ==
    [names |-> {"a", "b", "c"},
     payloads |-> {VStr(<<"x">>)},
     options |-> {Plain},
     more |-> {VStr(<<>>)},
     orderLen |-> MaxOrderArgs,
     fields |-> [content |-> {<<"M">>}]]

SpecOrder == InitBuilder /\ [][NextBuilder(Ordering)]_vars

\* C1: the order list holds exactly the keys of the sections mapping, each
\* exactly once
OrderMatchesSections ==
    /\ Range(order) = Keys(sections)
    /\ Len(order) = Cardinality(Keys(sections))

\* C6: add_section(replace=False) on an existing name raises and leaves
\* sections and order as they were; on a new name it succeeds and appends the
\* name to the order list
AddSectionNoReplace ==
    [][(last'.op = "add_section" /\ ~last'.replace) =>
          IF last'.name \in Keys(sections)
          THEN last'.raised = "ValueError" /\ sections' = sections /\ order' = order
          ELSE /\ last'.raised = "no"
               /\ last'.name \in Keys(sections')
               /\ order' = Append(order, last'.name)]_vars

\* add_section(replace=False) has just raised on a builder that holds the name
AddSectionNoReplaceWitness ==
    /\ last.op = "add_section" /\ ~last.replace /\ last.raised = "ValueError"
    /\ last.name \in Keys(sections)
    /\ Len(order) >= 2

\* the order list the text of set_order's contract gives: the names given that
\* exist, as given, then the sections not mentioned, in the mapping's order
ContractOrder(names, secs) ==
    LET keys == KeyList(secs)
    IN SelectSeq(names, LAMBDA n : InSeq(n, keys))
          \o SelectSeq(keys, LAMBDA k : ~InSeq(k, names))

\* the names of the sections in compile's output, in output order
EmittedSeq(b, context) ==
    LET parts == CompileParts(b, context, FALSE, 1)
    IN [i \in DOMAIN parts |-> parts[i].name]

\* the section has something to show under the context: its condition, if
\* any, matches and its rendering is not empty
Shows(sec, context) ==
    /\ Truthy(sec.include_if) => _conditions_match(sec.include_if, context)
    /\ Section_render(sec, context) # <<>>

\* C10: set_order(names) makes the order list the existing names given, in
\* the given order, then the sections not mentioned in mapping order; it
\* leaves the sections mapping alone and compile emits, of that list and in
\* its order, the sections that have something to show
SetOrderContract ==
    /\ [][last'.op = "set_order" =>
             /\ order' = ContractOrder(last'.names, sections)
             /\ sections' = sections]_vars
    /\ [](last.op = "set_order" =>
             \A context \in Contexts :
                 EmittedSeq(builder, context)
                    = SelectSeq(ContractOrder(last.names, sections),
                                LAMBDA n : Shows(Lookup(sections, n).sec, context)))

\* set_order(["c"]) on a builder that holds a, b, c: c first, then a and b in
\* mapping order
SetOrderWitness ==
    /\ last.op = "set_order" /\ last.names = <<"c">>
    /\ KeyList(sections) = <<"a", "b", "c">>
    /\ order = <<"c", "a", "b">>
    /\ EmittedSeq(builder, VNone) = order

(***************************************************************************)
(* SpecAlias: the caller assigns every field of the object it passed       *)
(***************************************************************************)
Aliasing ==
    [names |-> {"a"},
     payloads |-> {VStr(<<"x">>)},
     options |-> {Plain},
     more |-> {VStr(<<"y">>)},
     orderLen |-> 1,
     fields |-> [content |-> {<<"M">>},
                 title |-> {None},
                 max_chars |-> {Some(1)},
                 include_if |-> {IfRoleList},
                 header_size |-> {2}]]

SpecAlias == InitBuilder /\ [][NextBuilder(Aliasing)]_vars

\* C5: an assignment to a field of the caller's object leaves every section
\* that add_section stored from it with copy=True as it was, and, when no
\* section was stored from it with copy=False, every compile output too
CopyIsolates ==
    [][last'.op = "mutate" =>
          /\ \A i \in DOMAIN sections :
                (sections[i].from_obj = last'.obj /\ sections[i].copied)
                   => sections'[i] = sections[i]
          /\ (\A i \in DOMAIN sections : sections[i].from_obj = last'.obj => sections[i].copied)
                => \A context \in Contexts, include_empty \in BOOLEAN :
                      compile(Builder(sections', order'), context, JOINER, include_empty)
                         = compile(Builder(sections, order), context, JOINER, include_empty)]_vars

\* the caller has changed its object after add_section(copy=True) stored it,
\* and the stored section, which compile emits, differs from the object now
CopyIsolatesWitness ==
    /\ last.op = "mutate"
    /\ \E i \in DOMAIN sections :
          /\ sections[i].from_obj = last.obj /\ sections[i].copied
          /\ sections[i].sec # callerObj[last.obj]
          /\ sections[i].key \in Emitted(builder, CtxOwner)


(***************************************************************************)
(* _apply_macros on its own: the caller passes a text and a context        *)
(***************************************************************************)
MaxTokens == 4

\* the pieces texts are put together from: delimiters, a macro, a key, a blank
Tokens ==
    {<<"{", "{", "{">>, <<"}", "}", "}">>, <<"{", "{", "k", "}", "}">>,
     <<"{", "{">>, <<"}", "}">>, <<"k">>, <<" ">>}

RECURSIVE Concat(_)
Concat(ts) == IF ts = <<>> THEN <<>> ELSE Head(ts) \o Concat(Tail(ts))

\* the texts of up to n pieces
MacroTexts(n) == {Concat(ts) : ts \in SeqsUpTo(Tokens, n)}

\* {"k": "v"}
CtxPlain == VMap(<< <<"k">> >>, <<VStr(<<"v">>)>>)

\* {"k": "{{k}}"}
CtxBraces == VMap(<< <<"k">> >>, <<VStr(<<"{", "{", "k", "}", "}">>)>>)

MacroContexts == {CtxEmpty, CtxPlain, CtxBraces}

InitMacro ==
    /\ sections = <<>>
    /\ order = <<>>
    /\ callerObj = [obj \in {"base"} |-> BaseSection]
    /\ last = NoCall
    /\ args \in [text : MacroTexts(MaxTokens), context : MacroContexts]
    /\ result = Pending

ApplyMacros ==
    /\ ~result.done
    /\ result' = Returned(_apply_macros(args.text, args.context))
    /\ UNCHANGED <<sections, order, callerObj, last, args>>

SpecMacro == InitMacro /\ [][ApplyMacros]_vars

\* the text with every {{{ ... }}} span replaced by its inner text as written
\* and the stretches between the spans interpolated
RECURSIVE SpansVerbatim(_, _)
SpansVerbatim(text, context) ==
    LET p == Find(text, <<"{", "{", "{">>, 1)
        q == IF p = 0 THEN 0 ELSE Find(text, <<"}", "}", "}">>, p + 3)
    IN IF q = 0 THEN _DOUBLE_sub(text, context)
       ELSE _DOUBLE_sub(SubSeq(text, 1, p - 1), context)
               \o SubSeq(text, p + 3, q - 1)
               \o SpansVerbatim(From(text, q + 3), context)

\* C4: the output of _apply_macros carries the inner text of every triple
\* span as it was written, whatever it looks like, and interpolates only
\* outside the spans
TripleSpansVerbatim ==
    result.done => result.value = SpansVerbatim(args.text, args.context)

\* "{{{{{k}} }}}" under {"k": "v"} comes out as "{{k}} "
TripleSpansWitness ==
    /\ result.done
    /\ args.text = <<"{", "{", "{", "{", "{", "k", "}", "}", " ", "}", "}", "}">>
    /\ args.context = CtxPlain
    /\ result.value = <<"{", "{", "k", "}", "}", " ">>


(***************************************************************************)
(* _coerce_to_str on its own: the caller passes a payload and ordered      *)
(***************************************************************************)
MaxWidth == 2

\* "a", a blank string and None
Leaves == {VStr(<<"a">>), VStr(<<" ">>), VNone}

\* {"k": x} and {"k": x, "j": y}
MapsOver(S) ==
    {VMap(<< <<"k">> >>, <<x>>) : x \in S}
       \cup {VMap(<< <<"k">>, <<"j">> >>, <<x, y>>) : x \in S, y \in S}

\* the lists of up to n elements
ListsOver(S, n) == {VList(xs) : xs \in SeqsUpTo(S, n)}

Inner(n) == Leaves \cup ListsOver(Leaves, n) \cup MapsOver(Leaves)

\* [["a", "b", "c"]]
ThreeStrings == VList(<<VList(<<VStr(<<"a">>), VStr(<<"b">>), VStr(<<"c">>)>>)>>)

\* lists and maps two levels deep, one string, and a list of three strings
\* in a list
Payloads(n) ==
    ListsOver(Inner(n), n) \cup MapsOver(Inner(n) \ Leaves)
       \cup {VStr(<<"a", " ">>), ThreeStrings}

InitRender ==
    /\ sections = <<>>
    /\ order = <<>>
    /\ callerObj = [obj \in {"base"} |-> BaseSection]
    /\ last = NoCall
    /\ args \in [value : Payloads(MaxWidth), ordered : BOOLEAN]
    /\ result = Pending

CoerceToStr ==
    /\ ~result.done
    /\ result' = Returned(_coerce_to_str(args.value, args.ordered))
    /\ UNCHANGED <<sections, order, callerObj, last, args>>

SpecRender == InitRender /\ [][CoerceToStr]_vars

\* the lines of a text, none for the empty text
RECURSIVE SplitLines(_)
SplitLines(text) ==
    IF text = <<>> THEN <<>>
    ELSE LET n == Find(text, <<"\n">>, 1)
         IN IF n = 0 THEN <<text>>
            ELSE <<SubSeq(text, 1, n - 1)>> \o SplitLines(From(text, n + 1))

\* the nesting level of an output line: two blanks a level
LineLevel(line) == (Len(line) - Len(LStrip(line))) \div 2

\* the number in front of the "." of a numbered line, 0 when it has none
LineNumber(line) ==
    LET body == LStrip(line)
        e == DigitsEnd(body, 1)
    IN IF e >= 1 /\ e < Len(body) /\ body[e + 1] = "." THEN StrInt(SubSeq(body, 1, e)) ELSE 0

\* every line opens its group of siblings with 1 or follows the sibling
\* before it by one
SiblingsCountFromOne(lines) ==
    \A i \in DOMAIN lines :
        LET before == {j \in 1..(i - 1) : LineLevel(lines[j]) <= LineLevel(lines[i])}
            j == CHOOSE j \in before : \A k \in before : k <= j
        IN IF before = {} \/ LineLevel(lines[j]) < LineLevel(lines[i])
           THEN LineNumber(lines[i]) = 1
           ELSE LineNumber(lines[i]) = LineNumber(lines[j]) + 1

\* C7: a nested payload rendered with ordered=True numbers every group of
\* sibling lines 1, 2, 3, ... from its first emitted line, at every level
NumberingRestartsAtOne ==
    (result.done /\ args.ordered /\ _is_nested_structure(args.value)) =>
        SiblingsCountFromOne(SplitLines(result.value))


(***************************************************************************)
(* Section.render on its own: the caller builds a Section and renders it   *)
(***************************************************************************)
MaxSectionLen == 3

SectionContents(n) == SeqsUpTo({"a", " "}, n)

SectionLimits(n) == {None} \cup {Some(m) : m \in 0..n}

InitSection ==
    /\ sections = <<>>
    /\ order = <<>>
    /\ callerObj = [obj \in {"base"} |-> BaseSection]
    /\ last = NoCall
    /\ args \in [sec : {Section("s", content, max_chars, title, VNone, 1) :
                           content \in SectionContents(MaxSectionLen),
                           max_chars \in SectionLimits(MaxSectionLen),
                           title \in {None, Some(<<"T">>)}},
                 context : {VNone, CtxEmpty}]
    /\ result = Pending

Render ==
    /\ ~result.done
    /\ result' = Returned(Section_render(args.sec, args.context))
    /\ UNCHANGED <<sections, order, callerObj, last, args>>

SpecSection == InitSection /\ [][Render]_vars

\* what render returns for a section whose content part is body
WithHeader(sec, context, body) ==
    LET header == Section_header(sec, context)
    IN IF header # None /\ header[1] # <<>> /\ body # <<>>
       THEN header[1] \o <<"\n">> \o body
       ELSE body

\* C8: with max_chars set to n >= 0, a trimmed content longer than n renders
\* as its first n characters, right-trimmed, and one ellipsis; a trimmed
\* content of at most n characters renders as it is
TruncatesAtMaxChars ==
    (result.done /\ args.sec.max_chars # None) =>
        LET n == args.sec.max_chars[1]
            s == Strip(args.sec.content)
        IN result.value =
              WithHeader(args.sec, args.context,
                         IF Len(s) > n THEN RStrip(SubSeq(s, 1, n)) \o <<ELLIPSIS>> ELSE s)


(***************************************************************************)
(* _apply_macros run again on its own output, under the same context       *)
(***************************************************************************)
\* {"k": "{{j}}", "j": "v"}
CtxChain ==
    VMap(<< <<"k">>, <<"j">> >>, <<VStr(<<"{", "{", "j", "}", "}">>), VStr(<<"v">>)>>)

InitRerun ==
    /\ sections = <<>>
    /\ order = <<>>
    /\ callerObj = [obj \in {"base"} |-> BaseSection]
    /\ last = NoCall
    /\ args \in [text : MacroTexts(MaxTokens), context : MacroContexts \cup {CtxChain},
                 first : {Pending}]
    /\ result = Pending

\* out = _apply_macros(text, context)
FirstRun ==
    /\ ~result.done
    /\ result' = Returned(_apply_macros(args.text, args.context))
    /\ UNCHANGED <<sections, order, callerObj, last, args>>

\* _apply_macros(out, context)
SecondRun ==
    /\ result.done /\ ~args.first.done
    /\ args' = [args EXCEPT !.first = result]
    /\ result' = Returned(_apply_macros(result.value, args.context))
    /\ UNCHANGED <<sections, order, callerObj, last>>

SpecRerun == InitRerun /\ [][FirstRun \/ SecondRun]_vars

\* every {{key}} of the text has a value in the context
KeysResolve(text, context) ==
    \A p \in 1..Len(text) :
        DoubleAt(text, p) =>
            _lookup(Strip(SubSeq(text, p + 2, FirstBrace(text, p + 2) - 1)), context).t # "none"

\* C11: when every {{key}} of the text, and every one left in the output,
\* has a value in the context, running _apply_macros on its own output
\* gives that output again
MacrosIdempotent ==
    (args.first.done /\ KeysResolve(args.text, args.context)
        /\ KeysResolve(args.first.value, args.context)) =>
        result.value = args.first.value


(***************************************************************************)
(* from_json and from_yaml on a document of any top-level kind             *)
(***************************************************************************)
MaxDocLen == 2

\* None, booleans, strings
Scalars == {VNone, VBool(TRUE), VBool(FALSE), VStr(<<>>), VStr(<<"a">>)}

\* {}, {"meta": {}} and {"order": []}
MappingDocs ==
    {VMap(<<>>, <<>>),
     VMap(<< <<"m", "e", "t", "a">> >>, <<VMap(<<>>, <<>>)>>),
     VMap(<< <<"o", "r", "d", "e", "r">> >>, <<VList(<<>>)>>)}

\* the parsed documents: scalars, lists of up to n scalars, mappings
Documents(n) == Scalars \cup ListsOver({VNone, VBool(TRUE), VStr(<<"a">>)}, n) \cup MappingDocs

InitLoad ==
    /\ sections = <<>>
    /\ order = <<>>
    /\ callerObj = [obj \in {"base"} |-> BaseSection]
    /\ last = NoCall
    /\ args \in [loader : {"from_json", "from_yaml"}, source : Documents(MaxDocLen),
                 yaml_installed : BOOLEAN]
    /\ result = Pending

FromJson ==
    /\ ~result.done /\ args.loader = "from_json"
    /\ result' = Returned(from_json(args.source))
    /\ UNCHANGED <<sections, order, callerObj, last, args>>

FromYaml ==
    /\ ~result.done /\ args.loader = "from_yaml"
    /\ result' = Returned(from_yaml(args.yaml_installed, args.source))
    /\ UNCHANGED <<sections, order, callerObj, last, args>>

SpecLoad == InitLoad /\ [][FromJson \/ FromYaml]_vars

\* C12: a document whose top-level value is not a mapping makes from_json
\* and from_yaml (with PyYAML installed) raise ValueError: no other
\* exception, and no builder returned
NonMappingIsFormatError ==
    (result.done /\ args.source.t # "map"
        /\ (args.loader = "from_yaml" => args.yaml_installed)) =>
        result.value = Raised("ValueError")


\* the element is a list or tuple that is not a two-element pair headed by
\* a string
UnlabelledSequence(item) ==
    /\ item.t \in {"list", "tuple"}
    /\ ~(Len(item.items) = 2 /\ item.items[1].t = "str")

\* the lines of a top-level sequence when every unlabelled nested sequence
\* is a bare bullet followed by all of its elements one level down
RECURSIVE BareBulletLines(_, _, _)
BareBulletLines(seq, idx, ordered) ==
    IF idx > Len(seq.items) THEN <<>>
    ELSE LET item == seq.items[idx]
         IN (IF UnlabelledSequence(item)
             THEN <<_bullet_label(idx, ordered)>> \o _render_sequence_at_level(item, 1, ordered)
             ELSE SequenceItem(item, idx, 0, ordered))
               \o BareBulletLines(seq, idx + 1, ordered)

\* C13: in a sequence, only a two-element list headed by a string is a label
\* with children; every other nested sequence is a bare bullet line and the
\* rendering of all of its elements at the next level
PairOnlyWhenTwoElements ==
    (result.done /\ args.value.t = "list") =>
        result.value = Join(<<"\n">>, BareBulletLines(args.value, 1, args.ordered))

=============================================================================
